---- MODULE Spec2Model ----
(***************************************************************************)
(* Model of src/main.js: the CursorDO room object (sessions, cursors,     *)
(* handleSession with its message and close listeners, broadcast) and the *)
(* worker's routing of a connection to a room.                            *)
(*                                                                         *)
(* JavaScript runs each listener to completion, and no listener contains  *)
(* an await after its first statement, so each handler is one action.     *)
(* A send to a connection either succeeds or throws; which one is an      *)
(* input of the action (`sent` of a join, the set `failing` of the        *)
(* recipients whose send throws in a broadcast).  Session ids stand for   *)
(* the values of crypto.randomUUID(), taken to be fresh: 1, 2, ... in     *)
(* the order of the joins.                                                *)
(***************************************************************************)
EXTENDS Integers, Sequences, FiniteSets, TLC

\* ---------------------------------------------------------------- bounds
\* handler runs (joins, message events, close events) in a behaviour
MaxEvents == 5
\* handler runs that follow the four joins of InitOrder
MaxOrder == 2

NoParam == "<absent>"
RoomParams == {NoParam, "", "a"}

\* ------------------------------------------------------------ pure parts
\* url.searchParams.get("room") || "default": an absent or empty parameter
\* is falsy
RoomOf(param) == IF param = NoParam \/ param = "" THEN "default" ELSE param

Rooms == {RoomOf(p) : p \in RoomParams}

\* `hsl(${h}, 70%, 60%)`
Color(h) == <<"hsl", h, 70, 60>>

\* what a client can put on the wire: text that is not JSON, or a JSON
\* object with a type and any other fields it likes (an optional field is
\* a set with at most one element)
RawMessages ==
    {[json |-> FALSE, type |-> "cursor", x |-> 0, y |-> 0, color |-> {}, sessionId |-> {}],
     [json |-> TRUE, type |-> "ping", x |-> 0, y |-> 1, color |-> {}, sessionId |-> {}],
     [json |-> TRUE, type |-> "cursor", x |-> 0, y |-> 1, color |-> {}, sessionId |-> {}],
     [json |-> TRUE, type |-> "cursor", x |-> 1, y |-> 0, color |-> {Color(10)}, sessionId |-> {1}]}

NoRaw == [json |-> FALSE, type |-> "", x |-> 0, y |-> 0, color |-> {}, sessionId |-> {}]

\* JSON.parse(msg.data): throws on text that is not JSON
JSONparse(raw) ==
    IF raw.json
    THEN [threw |-> FALSE,
          data |-> [type |-> raw.type, x |-> raw.x, y |-> raw.y,
                    color |-> raw.color, sessionId |-> raw.sessionId]]
    ELSE [threw |-> TRUE, data |-> [type |-> "", x |-> 0, y |-> 0, color |-> {}, sessionId |-> {}]]

\* Map.prototype.set / delete / has on a map held as a function
MapSet(m, k, v) == [i \in DOMAIN m \cup {k} |-> IF i = k THEN v ELSE m[i]]
MapDelete(m, k) == [i \in DOMAIN m \ {k} |-> m[i]]

\* this.sessions is a Map in insertion order: a sequence of entries
SessionIds(ss) == {ss[i].id : i \in DOMAIN ss}
SessionsDelete(ss, k) == SelectSeq(ss, LAMBDA e : e.id # k)

\* ------------------------------------------------------- CursorApp (client)
\* this.maxReconnectAttempts
maxReconnectAttempts == 5
\* const throttleDelay
throttleDelay == 50
\* the 1000 and the 10000 of attemptReconnect
BaseDelay == 1000
DelayCeiling == 10000

\* WebSocket objects the page may create in a behaviour
MaxSockets == 6
\* the latest value of Date.now() in a behaviour
MaxNow == 180

\* a value of Date.now() when the page loads: well past one throttle
\* interval after time 0
StartTime == 2 * throttleDelay
TickSteps == {25, 26}
PointerSamples == {<<3, 4>>, <<5, 6>>}

\* the sessions of other clients that the server may tell the page about
RemoteIds == {1, 2}
\* the session id the server gives the page on its k-th connection
OwnId(k) == Cardinality(RemoteIds) + k

StatusConnecting == "Connecting..."
StatusConnected == "Connected"
StatusConnectedId == "Connected (ID: ...)"
StatusReconnecting == "Disconnected. Reconnecting..."
StatusError == "Connection error"
StatusFailed == "Failed to reconnect. Please refresh."

NoMessage == [type |-> "none"]

\* the init payloads, cursor events and leave events a connection can
\* bring, as the room sends them
InitMessages(k) ==
    {[type |-> "init", sessionId |-> OwnId(k),
      cursors |-> [i \in S |-> [x |-> 0, y |-> i, color |-> Color(10)]]] : S \in SUBSET RemoteIds}

EventMessages(k) ==
    {[type |-> "cursor", sessionId |-> i, x |-> 1, y |-> 1, color |-> Color(200)] :
        i \in RemoteIds \cup {OwnId(k)}}
    \cup {[type |-> "leave", sessionId |-> i] : i \in RemoteIds}

AlwaysRetry(attempts) == TRUE

\* this.reconnectAttempts < this.maxReconnectAttempts
CanRetry(attempts) == attempts < maxReconnectAttempts

Min(a, b) == IF a < b THEN a ELSE b

TimeoutUncapped(attempts) == BaseDelay * 2 ^ attempts

\* Math.min(1000 * Math.pow(2, this.reconnectAttempts), 10000)
Timeout(attempts) == Min(BaseDelay * 2 ^ attempts, DelayCeiling)

AlwaysPasses(now, lastSendTime) == TRUE

\* now - lastSendTime > throttleDelay
PassesThrottle(now, lastSendTime) == now - lastSendTime > throttleDelay

\* the page after new CursorApp(): the constructor has called connect()
\* and setupEventListeners()
AppInit ==
    [socks |-> <<"connecting">>,    \* readyState of every WebSocket created; this.ws is the last
     inited |-> <<FALSE>>,          \* whether the socket has brought its init payload
     timers |-> <<>>,               \* delays of the pending setTimeout calls
     reconnectAttempts |-> 0,
     status |-> StatusConnecting,   \* statusEl.textContent
     sessionId |-> 0,               \* this.sessionId, 0 for null
     cursors |-> <<>>,              \* this.cursors: id -> the element's left, top, color
     lastSendTime |-> 0,
     now |-> StartTime,             \* Date.now()
     sent |-> <<>>,                 \* the cursor messages put on the wire, with their time
     delays |-> <<>>,               \* the delays scheduled since the last onopen
     handled |-> NoMessage]         \* the message or pointer sample handled last

\* connect()
connect(a) ==
    [a EXCEPT !.socks = Append(@, "connecting"), !.inited = Append(@, FALSE)]

\* attemptReconnect()
attemptReconnect(a) ==
    IF CanRetry(a.reconnectAttempts)
    THEN [a EXCEPT !.timers = Append(@, Timeout(a.reconnectAttempts)),
                   !.delays = Append(@, Timeout(a.reconnectAttempts)),
                   !.reconnectAttempts = @ + 1]
    ELSE [a EXCEPT !.status = StatusFailed]

\* this.ws.onopen of the k-th socket
onopen(a, k) ==
    [a EXCEPT !.socks[k] = "open", !.status = StatusConnected,
              !.reconnectAttempts = 0, !.delays = <<>>]

\* this.ws.onclose of the k-th socket
onclose(a, k) ==
    attemptReconnect([a EXCEPT !.socks[k] = "closed", !.status = StatusReconnecting])

onerrorReconnecting(a, k) ==
    attemptReconnect([a EXCEPT !.status = StatusError])

\* this.ws.onerror of the k-th socket
onerror(a, k) == [a EXCEPT !.status = StatusError]

\* updateCursor(sessionId, x, y, color): the color is set when the element
\* is created, left and top always
updateCursor(cs, sessionId, x, y, c) ==
    MapSet(cs, sessionId,
           [x |-> x, y |-> y,
            color |-> IF sessionId \in DOMAIN cs THEN cs[sessionId].color ELSE c])

\* removeCursor(sessionId)
removeCursor(cs, sessionId) ==
    IF sessionId \in DOMAIN cs THEN MapDelete(cs, sessionId) ELSE cs

\* for (const [id, cursor] of Object.entries(message.cursors))
\*     this.updateCursor(id, cursor.x, cursor.y, cursor.color)
RECURSIVE AddSnapshot(_, _, _)
AddSnapshot(cs, snapshot, todo) ==
    IF todo = {}
    THEN cs
    ELSE LET id == CHOOSE i \in todo : TRUE
         IN AddSnapshot(updateCursor(cs, id, snapshot[id].x, snapshot[id].y, snapshot[id].color),
                        snapshot, todo \ {id})

\* handleMessage(message)
handleMessage(a, message) ==
    IF message.type = "init"
    THEN [a EXCEPT !.sessionId = message.sessionId,
                   !.status = StatusConnectedId,
                   !.cursors = AddSnapshot(@, message.cursors, DOMAIN message.cursors)]
    ELSE IF message.type = "cursor"
    THEN IF message.sessionId # a.sessionId
         THEN [a EXCEPT !.cursors = updateCursor(@, message.sessionId, message.x, message.y, message.color)]
         ELSE a
    ELSE IF message.type = "leave"
    THEN [a EXCEPT !.cursors = removeCursor(@, message.sessionId)]
    ELSE a

\* sendCursorPosition(x, y)
sendCursorPosition(a, x, y) ==
    IF /\ PassesThrottle(a.now, a.lastSendTime)
       /\ a.socks[Len(a.socks)] = "open"
    THEN [a EXCEPT !.sent = Append(@, [t |-> a.now, x |-> x, y |-> y]),
                   !.lastSendTime = a.now]
    ELSE a

VARIABLES
    sessions,   \* room -> this.sessions of that room's CursorDO
    cursors,    \* room -> this.cursors of that room's CursorDO
    ws,         \* session -> "open" (listeners attached), "closed" (close
                \*   listener has run), "nolisten" (handleSession threw
                \*   before attaching the listeners)
    room,       \* session -> the room whose CursorDO accepted it
    color,      \* session -> the const color of its handleSession closure
    reported,   \* session -> the last position it reported, {} if none
    log,        \* session -> the events its connection was delivered,
                \*   each tagged with the number of the handler that sent it
    app,        \* the CursorApp of one page (see AppInit)
    last        \* the latest handler run: its number, kind, session, the
                \*   text it was given (message listener), whether the
                \*   session was in sessions when the handler began, and
                \*   every webSocket.send it made with the outcome

vars == <<sessions, cursors, ws, room, color, reported, log, last, app>>

Joined == DOMAIN ws

Init ==
    /\ sessions = [r \in Rooms |-> <<>>]
    /\ cursors = [r \in Rooms |-> <<>>]
    /\ ws = <<>>
    /\ room = <<>>
    /\ color = <<>>
    /\ reported = <<>>
    /\ log = <<>>
    /\ last = [n |-> 0, op |-> "none", sid |-> 0, raw |-> NoRaw, reg |-> FALSE, sends |-> <<>>]
    /\ app = AppInit

\* the maps of the CursorDO that env.CURSOR.get(env.CURSOR.idFromName(r))
\* names: one object, with its own two maps, per room id
SharedSessions(r) == sessions["default"] \o sessions["a"]

ThisSessions(r) == sessions[r]
ThisCursors(r) == cursors[r]

\* ------------------------------------------------------------- broadcast
EveryoneIsRecipient(sessionId, senderSessionId) == TRUE

\* if (sessionId !== senderSessionId)
IsRecipient(sessionId, senderSessionId) == sessionId # senderSessionId

DeliverFirst(received, entry) == <<entry>> \o received

\* a connection delivers what was sent on it in the order of the sends
Deliver(received, entry) == Append(received, entry)

BroadcastStepNotifying(st, sessionId, senderSessionId, message, failing, n) ==
    IF ~IsRecipient(sessionId, senderSessionId)
    THEN st
    ELSE IF sessionId \notin failing
    THEN [st EXCEPT !.log[sessionId] = Deliver(@, [n |-> n, ev |-> message]),
                    !.sends = Append(@, [to |-> sessionId, ev |-> message, ok |-> TRUE])]
    ELSE LET rest == SessionsDelete(st.sessions, sessionId)
         IN [st EXCEPT !.sessions = rest,
                       !.cursors = MapDelete(@, sessionId),
                       !.sends = Append(@, [to |-> sessionId, ev |-> message, ok |-> FALSE])
                                 \o [j \in DOMAIN rest |->
                                       [to |-> rest[j].id,
                                        ev |-> [type |-> "leave", sessionId |-> sessionId],
                                        ok |-> TRUE]]]

\* one turn of the for-of loop of broadcast for the entry `sessionId`:
\* send, and in the catch delete the entry from both maps
BroadcastStep(st, sessionId, senderSessionId, message, failing, n) ==
    IF ~IsRecipient(sessionId, senderSessionId)
    THEN st
    ELSE IF sessionId \notin failing
    THEN [st EXCEPT !.log[sessionId] = Deliver(@, [n |-> n, ev |-> message]),
                    !.sends = Append(@, [to |-> sessionId, ev |-> message, ok |-> TRUE])]
    ELSE [st EXCEPT !.sessions = SessionsDelete(@, sessionId),
                    !.cursors = MapDelete(@, sessionId),
                    !.sends = Append(@, [to |-> sessionId, ev |-> message, ok |-> FALSE])]

RECURSIVE BroadcastLoopAborting(_, _, _, _, _, _, _)
BroadcastLoopAborting(st, entries, i, senderSessionId, message, failing, n) ==
    IF i > Len(entries)
    THEN st
    ELSE IF IsRecipient(entries[i].id, senderSessionId) /\ entries[i].id \in failing
    THEN [st EXCEPT !.sends = Append(@, [to |-> entries[i].id, ev |-> message, ok |-> FALSE])]
    ELSE BroadcastLoopAborting(
             BroadcastStep(st, entries[i].id, senderSessionId, message, failing, n),
             entries, i + 1, senderSessionId, message, failing, n)

\* for (const [sessionId, session] of this.sessions.entries()): the only
\* entry the loop deletes is the one it is at, so the entries it visits
\* are those present when it starts, in insertion order
RECURSIVE BroadcastLoop(_, _, _, _, _, _, _)
BroadcastLoop(st, entries, i, senderSessionId, message, failing, n) ==
    IF i > Len(entries)
    THEN st
    ELSE BroadcastLoop(
             BroadcastStep(st, entries[i].id, senderSessionId, message, failing, n),
             entries, i + 1, senderSessionId, message, failing, n)

broadcast(st, senderSessionId, message, failing, n) ==
    BroadcastLoop(st, st.sessions, 1, senderSessionId, message, failing, n)

\* --------------------------------------------------------------- events
InitEvent(sessionId, cs) == [type |-> "init", sessionId |-> sessionId, cursors |-> cs]

CursorEntry(data, c) == [x |-> data.x, y |-> data.y, color |-> c]

CursorEventTrusting(sessionId, data, c) ==
    [type |-> "cursor", sessionId |-> sessionId, x |-> data.x, y |-> data.y,
     color |-> IF data.color = {} THEN c ELSE CHOOSE d \in data.color : TRUE]

CursorEvent(sessionId, data, c) ==
    [type |-> "cursor", sessionId |-> sessionId, x |-> data.x, y |-> data.y, color |-> c]

LeaveEvent(sessionId) == [type |-> "leave", sessionId |-> sessionId]

\* -------------------------------------------------------------- actions
JoinAnnouncing(param, h, sent) ==
    LET r == RoomOf(param)
        sessionId == Len(ws) + 1
        c == Color(h)
        n == last.n + 1
        payload == InitEvent(sessionId, ThisCursors(r))
        others == ThisSessions(r)
        hello == [type |-> "cursor", sessionId |-> sessionId, x |-> 0, y |-> 0, color |-> c]
    IN /\ last.n < MaxEvents
       /\ sessions' = [sessions EXCEPT ![r] = Append(ThisSessions(r), [id |-> sessionId, color |-> c])]
       /\ UNCHANGED <<cursors, app>>
       /\ ws' = Append(ws, IF sent THEN "open" ELSE "nolisten")
       /\ room' = Append(room, r)
       /\ color' = Append(color, c)
       /\ reported' = Append(reported, {})
       /\ log' = Append([X \in DOMAIN log |->
                           IF X \in SessionIds(others)
                           THEN Append(log[X], [n |-> n, ev |-> hello])
                           ELSE log[X]],
                        IF sent THEN <<[n |-> n, ev |-> payload]>> ELSE <<>>)
       /\ last' = [n |-> n, op |-> "join", sid |-> sessionId, raw |-> NoRaw, reg |-> FALSE,
                   sends |-> <<[to |-> sessionId, ev |-> payload, ok |-> sent]>>
                             \o [j \in DOMAIN others |-> [to |-> others[j].id, ev |-> hello, ok |-> TRUE]]]

\* default.fetch routes /ws?room=param to the room's CursorDO, whose fetch
\* runs handleSession on the server end of a new WebSocketPair.  `sent` is
\* whether webSocket.send of the init payload returns; when it throws,
\* handleSession throws after sessions.set and attaches no listener.
Join(param, h, sent) ==
    LET r == RoomOf(param)
        sessionId == Len(ws) + 1
        c == Color(h)
        n == last.n + 1
        payload == InitEvent(sessionId, ThisCursors(r))
    IN /\ last.n < MaxEvents
       /\ sessions' = [sessions EXCEPT ![r] = Append(ThisSessions(r), [id |-> sessionId, color |-> c])]
       /\ UNCHANGED <<cursors, app>>
       /\ ws' = Append(ws, IF sent THEN "open" ELSE "nolisten")
       /\ room' = Append(room, r)
       /\ color' = Append(color, c)
       /\ reported' = Append(reported, {})
       /\ log' = Append(log, IF sent THEN <<[n |-> n, ev |-> payload]>> ELSE <<>>)
       /\ last' = [n |-> n, op |-> "join", sid |-> sessionId, raw |-> NoRaw, reg |-> FALSE,
                   sends |-> <<[to |-> sessionId, ev |-> payload, ok |-> sent]>>]

\* what the message listener of session `sessionId` does with `raw`
OnMessage(st, sessionId, raw, failing, n) ==
    LET parsed == JSONparse(raw)
        data == parsed.data
    IN IF parsed.threw \/ data.type # "cursor"
       THEN st
       ELSE broadcast([st EXCEPT !.cursors = MapSet(@, sessionId, CursorEntry(data, color[sessionId]))],
                      sessionId, CursorEvent(sessionId, data, color[sessionId]), failing, n)

OnCloseSilent(st, sessionId, failing, n) ==
    [st EXCEPT !.sessions = SessionsDelete(@, sessionId),
               !.cursors = MapDelete(@, sessionId)]

OnCloseKeepingCursor(st, sessionId, failing, n) ==
    broadcast([st EXCEPT !.sessions = SessionsDelete(@, sessionId)],
              sessionId, LeaveEvent(sessionId), failing, n)

OnCloseIfRegistered(st, sessionId, failing, n) ==
    IF sessionId \notin SessionIds(st.sessions)
    THEN st
    ELSE broadcast([st EXCEPT !.sessions = SessionsDelete(@, sessionId),
                              !.cursors = MapDelete(@, sessionId)],
                   sessionId, LeaveEvent(sessionId), failing, n)

\* what the close listener of session `sessionId` does
OnClose(st, sessionId, failing, n) ==
    broadcast([st EXCEPT !.sessions = SessionsDelete(@, sessionId),
                         !.cursors = MapDelete(@, sessionId)],
              sessionId, LeaveEvent(sessionId), failing, n)

Start(r) == [sessions |-> ThisSessions(r), cursors |-> ThisCursors(r), log |-> log, sends |-> <<>>]

Commit(r, st, op, sessionId, raw, n) ==
    /\ sessions' = [sessions EXCEPT ![r] = st.sessions]
    /\ cursors' = [cursors EXCEPT ![r] = st.cursors]
    /\ log' = st.log
    /\ last' = [n |-> n, op |-> op, sid |-> sessionId, raw |-> raw,
                reg |-> sessionId \in SessionIds(sessions[r]), sends |-> st.sends]

\* a message event on the connection of `sessionId`; the listener exists
\* once handleSession has attached it and until the connection's close
Message(sessionId, raw, failing) ==
    LET r == room[sessionId]
        n == last.n + 1
        st == OnMessage(Start(r), sessionId, raw, failing, n)
        parsed == JSONparse(raw)
    IN /\ ws[sessionId] = "open"
       /\ last.n < MaxEvents
       /\ Commit(r, st, "message", sessionId, raw, n)
       /\ reported' = IF ~parsed.threw /\ parsed.data.type = "cursor"
                      THEN [reported EXCEPT ![sessionId] = {<<parsed.data.x, parsed.data.y>>}]
                      ELSE reported
       /\ UNCHANGED <<ws, room, color, app>>

\* the close event of the connection of `sessionId`; a connection closes
\* once, and no message event follows its close
Close(sessionId, failing) ==
    LET r == room[sessionId]
        n == last.n + 1
        st == OnClose(Start(r), sessionId, failing, n)
    IN /\ ws[sessionId] = "open"
       /\ last.n < MaxEvents
       /\ Commit(r, st, "close", sessionId, NoRaw, n)
       /\ ws' = [ws EXCEPT ![sessionId] = "closed"]
       /\ UNCHANGED <<room, color, reported, app>>

\* the requests tried: a room parameter, the hue Math.random gives, and
\* whether the send of the init payload returns
JoinInputs ==
    {<<NoParam, 10, TRUE>>, <<"", 200, TRUE>>, <<"a", 10, TRUE>>,
     <<NoParam, 200, FALSE>>}

\* the sessions a broadcast on behalf of `sessionId` sends to; `failing`
\* in the actions is the set of those whose send throws
Recipients(sessionId) ==
    {b \in SessionIds(ThisSessions(room[sessionId])) : IsRecipient(b, sessionId)}

Next ==
    \/ \E req \in JoinInputs : Join(req[1], req[2], req[3])
    \/ \E s \in Joined, raw \in RawMessages :
         \E failing \in SUBSET Recipients(s) : Message(s, raw, failing)
    \/ \E s \in Joined :
         \E failing \in SUBSET Recipients(s) : Close(s, failing)

Spec == Init /\ [][Next]_vars

\* ------------------------------------------------- a second close event
\* The close listener run once more for a session whose close it has
\* already handled (a re-delivered leave).
ReClose(sessionId, failing) ==
    LET r == room[sessionId]
        n == last.n + 1
        st == OnClose(Start(r), sessionId, failing, n)
    IN /\ ws[sessionId] = "closed"
       /\ last.n < MaxEvents
       /\ Commit(r, st, "reclose", sessionId, NoRaw, n)
       /\ UNCHANGED <<ws, room, color, reported, app>>

NextRedeliver ==
    \/ Next
    \/ \E s \in Joined :
         \E failing \in SUBSET Recipients(s) : ReClose(s, failing)

SpecRedeliver == Init /\ [][NextRedeliver]_vars

\* ------------------------------------------------ a room of four sessions
\* The room "default" as it is after four joins whose init sends
\* succeeded, with MaxOrder handler runs left; message and close events
\* follow.
OrderHues == <<10, 200, 10, 200>>

\* the handler runs before the four joins: the joins are numbered so that
\* MaxOrder handler runs remain
OrderBase == MaxEvents - MaxOrder - Len(OrderHues)

InitOrder ==
    /\ sessions = [r \in Rooms |->
                      IF r = "default"
                      THEN [i \in DOMAIN OrderHues |-> [id |-> i, color |-> Color(OrderHues[i])]]
                      ELSE <<>>]
    /\ cursors = [r \in Rooms |-> <<>>]
    /\ ws = [i \in DOMAIN OrderHues |-> "open"]
    /\ room = [i \in DOMAIN OrderHues |-> "default"]
    /\ color = [i \in DOMAIN OrderHues |-> Color(OrderHues[i])]
    /\ reported = [i \in DOMAIN OrderHues |-> {}]
    /\ app = AppInit
    /\ log = [i \in DOMAIN OrderHues |-> <<[n |-> OrderBase + i, ev |-> InitEvent(i, <<>>)]>>]
    /\ last = [n |-> OrderBase + Len(OrderHues), op |-> "join", sid |-> Len(OrderHues), raw |-> NoRaw,
               reg |-> FALSE,
               sends |-> <<[to |-> Len(OrderHues), ev |-> InitEvent(Len(OrderHues), <<>>), ok |-> TRUE]>>]

NextOrder ==
    \/ \E s \in Joined, raw \in RawMessages :
         \E failing \in SUBSET Recipients(s) : Message(s, raw, failing)
    \/ \E s \in Joined :
         \E failing \in SUBSET Recipients(s) : Close(s, failing)

SpecOrder == InitOrder /\ [][NextOrder]_vars

\* ------------------------------------------------------ the page's events
serverVars == <<sessions, cursors, ws, room, color, reported, log, last>>

\* the k-th socket's handshake succeeds
SockOpen(k) ==
    /\ app.socks[k] = "connecting"
    /\ app' = [onopen(app, k) EXCEPT !.handled = NoMessage]
    /\ UNCHANGED serverVars

\* an error event on the k-th socket
SockError(k) ==
    /\ app.socks[k] \in {"connecting", "open"}
    /\ app' = [onerror(app, k) EXCEPT !.handled = NoMessage]
    /\ UNCHANGED serverVars

\* the close event of the k-th socket
SockClose(k) ==
    /\ app.socks[k] \in {"connecting", "open"}
    /\ app' = [onclose(app, k) EXCEPT !.handled = NoMessage]
    /\ UNCHANGED serverVars

\* the i-th pending timer fires: () => this.connect()
TimerFires(i) ==
    /\ i \in DOMAIN app.timers
    /\ Len(app.socks) < MaxSockets
    /\ app' = [connect(app) EXCEPT
                 !.timers = [j \in 1..(Len(app.timers) - 1) |->
                               IF j < i THEN app.timers[j] ELSE app.timers[j + 1]],
                 !.handled = NoMessage]
    /\ UNCHANGED serverVars

\* a message event on the k-th socket: the room sends the init payload
\* first and events after it
ServerMessage(k, message) ==
    /\ app.socks[k] = "open"
    /\ IF app.inited[k] THEN message \in EventMessages(k) ELSE message \in InitMessages(k)
    /\ app' = [handleMessage(app, message) EXCEPT !.inited[k] = TRUE, !.handled = message]
    /\ UNCHANGED serverVars

\* time passes
Tick(dt) ==
    /\ app.now + dt <= MaxNow
    /\ app' = [app EXCEPT !.now = @ + dt, !.handled = NoMessage]
    /\ UNCHANGED serverVars

\* a mousemove or touchmove event
PointerMove(x, y) ==
    /\ app' = [sendCursorPosition(app, x, y) EXCEPT !.handled = [type |-> "sample", x |-> x, y |-> y]]
    /\ UNCHANGED serverVars

\* connections, reconnection and the room's messages
NextClient ==
    \/ \E k \in DOMAIN app.socks : SockOpen(k)
    \/ \E k \in DOMAIN app.socks : SockError(k)
    \/ \E k \in DOMAIN app.socks : SockClose(k)
    \/ \E i \in DOMAIN app.timers : TimerFires(i)
    \/ \E k \in DOMAIN app.socks :
         \E message \in InitMessages(k) \cup EventMessages(k) : ServerMessage(k, message)

SpecClient == Init /\ [][NextClient]_vars

\* connections, time and pointer movement
NextThrottle ==
    \/ \E k \in DOMAIN app.socks : SockOpen(k)
    \/ \E k \in DOMAIN app.socks : SockClose(k)
    \/ \E i \in DOMAIN app.timers : TimerFires(i)
    \/ \E dt \in TickSteps : Tick(dt)
    \/ \E p \in PointerSamples : PointerMove(p[1], p[2])

SpecThrottle == Init /\ [][NextThrottle]_vars

\* ============================================================ properties
Registered(r) == SessionIds(sessions[r])

\* the session is in neither map's care any more: its close was handled
\* or a failed send evicted it
Left(s) == s \notin Registered(room[s])

Evicted(s) == Left(s) /\ ws[s] # "closed"

IsCursorText(raw) == ~JSONparse(raw).threw /\ JSONparse(raw).data.type = "cursor"

SendsTo(sends, b) == {i \in DOMAIN sends : sends[i].to = b}

LeavesOf(received, a) ==
    {i \in DOMAIN received : received[i].ev.type = "leave" /\ received[i].ev.sessionId = a}

\* C1: every session id that is a key of cursors is a key of sessions of
\* the same room.  The code breaks it: the message listener of a session
\* that a failed send evicted still sets cursors.
CursorsWithinSessions ==
    \A r \in Rooms : DOMAIN cursors[r] \subseteq Registered(r)

\* C2: a cursor update of session S makes exactly one send of S's cursor
\* event to every session other than S registered in S's room when the
\* update is handled, none to S and none to anyone else; S's connection is
\* delivered nothing.
SelfExclusion ==
    [][(last'.n # last.n /\ last'.op = "message" /\ IsCursorText(last'.raw)) =>
         LET S == last'.sid
             regs == Registered(room[S])
             sends == last'.sends
         IN /\ \A b \in regs \ {S} : Cardinality(SendsTo(sends, b)) = 1
            /\ \A i \in DOMAIN sends :
                 /\ sends[i].to \in regs \ {S}
                 /\ sends[i].ev.type = "cursor"
                 /\ sends[i].ev.sessionId = S
                 /\ sends[i].ok => log'[sends[i].to] = Append(log[sends[i].to], [n |-> last'.n, ev |-> sends[i].ev])
            /\ log'[S] = log[S]]_vars

\* a cursor update of a registered session reached two other sessions,
\* one send failing
SelfExclusionWitness ==
    /\ last.op = "message"
    /\ IsCursorText(last.raw)
    /\ ~Left(last.sid)
    /\ Len(last.sends) = 2
    /\ last.sends[1].ok
    /\ ~last.sends[2].ok

\* the entries a joiner's snapshot should hold: one for each session of the
\* room that has reported a position and has not left
ExpectedSnapshot(r, joiner) ==
    [a \in {b \in Joined \ {joiner} : room[b] = r /\ reported[b] # {} /\ ~Left(b)} |->
        [x |-> (CHOOSE p \in reported[a] : TRUE)[1],
         y |-> (CHOOSE p \in reported[a] : TRUE)[2],
         color |-> color[a]]]

\* C3: the cursors field of a joiner's init payload has exactly one entry
\* for each session that has reported a position and has not left, with
\* its latest x and y and its color.  The code breaks it through the
\* update of an evicted session (C10).
JoinSnapshotComplete ==
    last.op = "join" =>
        last.sends[1].ev.cursors = ExpectedSnapshot(room[last.sid], last.sid)

\* C4: when the close listener of session A runs, every other session B
\* registered in A's room is sent exactly one leave event carrying A's id;
\* every B still registered afterwards has been delivered it, exactly once
\* over its whole connection, and a B that was not delivered it is one the
\* failed send evicted.  No connection is ever delivered two leave events
\* for one session id.
LeavePropagation ==
    /\ [](\A b \in Joined : \A a \in Joined : Cardinality(LeavesOf(log[b], a)) <= 1)
    /\ [][(last'.n # last.n /\ last'.op = "close") =>
            LET A == last'.sid
                r == room[A]
                sends == last'.sends
            IN /\ \A i \in DOMAIN sends : sends[i].to \in Registered(r) \ {A}
               /\ \A B \in Registered(r) \ {A} :
                    /\ Cardinality(SendsTo(sends, B)) = 1
                    /\ \A i \in SendsTo(sends, B) :
                         /\ sends[i].ev = LeaveEvent(A)
                         /\ sends[i].ok <=> B \in SessionIds(sessions'[r])
                    /\ B \in SessionIds(sessions'[r]) =>
                         /\ log'[B] = Append(log[B], [n |-> last'.n, ev |-> LeaveEvent(A)])
                         /\ Cardinality(LeavesOf(log'[B], A)) = 1]_vars

\* a close told two other sessions, one of them through a failing send
LeavePropagationWitness ==
    /\ last.op = "close"
    /\ Len(last.sends) = 2
    /\ \E i \in DOMAIN last.sends : last.sends[i].ok
    /\ \E i \in DOMAIN last.sends : ~last.sends[i].ok

\* C5: no init snapshot sent to a joiner has an entry for a session whose
\* connection had closed before the join.
NoClosedInSnapshot ==
    last.op = "join" =>
        \A a \in DOMAIN last.sends[1].ev.cursors : ws[a] # "closed"

\* a join into a room that a session left after reporting a position
NoClosedInSnapshotWitness ==
    /\ last.op = "join"
    /\ \E a \in Joined :
         /\ ws[a] = "closed"
         /\ reported[a] # {}
         /\ room[a] = room[last.sid]

IsCursorEntry(e) == e.ev.type = "cursor"

\* C7: every connection is delivered events in the order in which the
\* room ran their handlers, so two sessions that both get the cursor
\* events of two updates get them in the same relative order; and each
\* step delivers the sends of one handler only, so the sends of one
\* broadcast are over before the next broadcast starts.
TotalOrder ==
    /\ [](\A X \in Joined : \A i \in DOMAIN log[X] : \A j \in DOMAIN log[X] :
            i < j => log[X][i].n < log[X][j].n)
    /\ [](\A X \in Joined : \A Y \in Joined :
            \A i \in DOMAIN log[X] : \A j \in DOMAIN log[X] :
            \A k \in DOMAIN log[Y] : \A l \in DOMAIN log[Y] :
              (/\ IsCursorEntry(log[X][i]) /\ IsCursorEntry(log[X][j])
               /\ log[X][i] = log[Y][k] /\ log[X][j] = log[Y][l])
              => (i < j <=> k < l))
    /\ [][\A X \in Joined :
            \/ log'[X] = log[X]
            \/ /\ last'.n = last.n + 1
               /\ \E i \in DOMAIN last'.sends :
                    /\ last'.sends[i].to = X
                    /\ last'.sends[i].ok
                    /\ log'[X] = Append(log[X], [n |-> last'.n, ev |-> last'.sends[i].ev])]_vars

\* two sessions were both delivered the cursor events of two updates that
\* two other sessions sent
TotalOrderWitness ==
    \E X \in Joined : \E Y \in Joined \ {X} :
      \E i \in DOMAIN log[X] : \E j \in DOMAIN log[X] :
      \E k \in DOMAIN log[Y] : \E l \in DOMAIN log[Y] :
        /\ IsCursorEntry(log[X][i]) /\ IsCursorEntry(log[X][j])
        /\ log[X][i] = log[Y][k] /\ log[X][j] = log[Y][l]
        /\ i < j
        /\ log[X][i].ev.sessionId # log[X][j].ev.sessionId
        /\ {log[X][i].ev.sessionId, log[X][j].ev.sessionId} \cap {X, Y} = {}

EventColorsStable(ev) ==
    /\ ev.type = "cursor" => ev.color = color[ev.sessionId]
    /\ ev.type = "init" => \A a \in DOMAIN ev.cursors : ev.cursors[a].color = color[a]

\* C8: the color in every cursor event about a session and in every init
\* snapshot entry for it, sent or delivered, is the color the session was
\* given at join, whatever the client wrote in its message.
ColorStable ==
    /\ \A X \in Joined : \A i \in DOMAIN log[X] : EventColorsStable(log[X][i].ev)
    /\ \A i \in DOMAIN last.sends : EventColorsStable(last.sends[i].ev)
    /\ \A r \in Rooms : \A a \in DOMAIN cursors[r] : cursors[r][a].color = color[a]
    /\ \A r \in Rooms : \A i \in DOMAIN sessions[r] : sessions[r][i].color = color[sessions[r][i].id]

\* a client's message named another color and another session id, and its
\* cursor event was delivered to someone
ColorStableWitness ==
    /\ last.op = "message"
    /\ IsCursorText(last.raw)
    /\ last.raw.color # {}
    /\ last.raw.color # {color[last.sid]}
    /\ last.raw.sessionId # {last.sid}
    /\ \E i \in DOMAIN last.sends : last.sends[i].ok

AboutRoom(ev, r, rm) ==
    /\ rm[ev.sessionId] = r
    /\ ev.type = "init" => \A a \in DOMAIN ev.cursors : rm[a] = r

\* C9: a handler run for a session of room r changes the sessions and
\* cursors of no other room, sends only to sessions of r, sends only
\* events and snapshot entries about sessions of r, and delivers nothing
\* to a connection of another room.
CrossRoomIsolation ==
    [][last'.n # last.n =>
         LET r == room'[last'.sid]
         IN /\ \A q \in Rooms \ {r} : sessions'[q] = sessions[q] /\ cursors'[q] = cursors[q]
            /\ \A i \in DOMAIN last'.sends :
                 /\ room'[last'.sends[i].to] = r
                 /\ AboutRoom(last'.sends[i].ev, r, room')
            /\ \A X \in Joined : room[X] # r => log'[X] = log[X]]_vars

\* a cursor update was delivered in one room while another room had a
\* registered session with a cursor entry
CrossRoomIsolationWitness ==
    /\ last.op = "message"
    /\ \E i \in DOMAIN last.sends : last.sends[i].ok
    /\ \E q \in Rooms \ {room[last.sid]} : Registered(q) # {} /\ DOMAIN cursors[q] # {}

\* C10: a cursor update from a session id that is not registered in
\* sessions changes neither sessions nor cursors and sends nothing.  The
\* message listener never looks the session up: it sets cursors and
\* broadcasts.
UnregisteredUpdateDropped ==
    [][(last'.n # last.n /\ last'.op = "message" /\ Left(last'.sid)) =>
         /\ sessions' = sessions
         /\ cursors' = cursors
         /\ last'.sends = <<>>]_vars

\* C11: whenever a send to a session's connection throws, the session is
\* removed from sessions and cursors, the init send of its join included.
\* handleSession does not catch the throw of the init send: the session
\* stays in sessions.
FailedSendEvicts ==
    \A i \in DOMAIN last.sends :
        ~last.sends[i].ok =>
            /\ last.sends[i].to \notin Registered(room[last.sends[i].to])
            /\ last.sends[i].to \notin DOMAIN cursors[room[last.sends[i].to]]

\* a handler that broadcasts: a cursor update or a close
IsBroadcastStep(l) ==
    \/ l.op = "message" /\ IsCursorText(l.raw)
    \/ l.op = "close"

\* the message the handler broadcasts
BroadcastMessage(l) ==
    IF l.op = "close"
    THEN LeaveEvent(l.sid)
    ELSE CursorEvent(l.sid, JSONparse(l.raw).data, color[l.sid])

\* C12: when the send to recipient R throws during a broadcast, R is gone
\* from sessions and cursors afterwards, every other session that was
\* registered (the sender aside) is still sent the same message, and no
\* recipient, R included, is sent it twice.
FailureDoesNotAbort ==
    [][(last'.n # last.n /\ IsBroadcastStep(last')) =>
         LET S == last'.sid
             r == room[S]
             sends == last'.sends
         IN /\ \A b \in Registered(r) \ {S} :
                 /\ Cardinality(SendsTo(sends, b)) = 1
                 /\ \A i \in SendsTo(sends, b) : sends[i].ev = BroadcastMessage(last')
            /\ \A i \in DOMAIN sends :
                 ~sends[i].ok =>
                     /\ sends[i].to \notin SessionIds(sessions'[r])
                     /\ sends[i].to \notin DOMAIN cursors'[r]
            /\ SessionIds(sessions'[r]) =
                 (Registered(r) \ {sends[i].to : i \in {j \in DOMAIN sends : ~sends[j].ok}})
                 \ (IF last'.op = "close" THEN {S} ELSE {})]_vars

\* a broadcast whose first send threw and whose second send was made and
\* delivered, the failing recipient having had a cursor entry
FailureDoesNotAbortWitness ==
    /\ IsBroadcastStep(last)
    /\ Len(last.sends) = 2
    /\ ~last.sends[1].ok
    /\ last.sends[2].ok
    /\ reported[last.sends[1].to] # {}

\* C13: a broadcast in which a send throws makes one send per recipient,
\* each of the handler's own message: the eviction adds no send, no leave
\* event for the evicted session reaches anyone, and every connection is
\* delivered at most that one message.
EvictionSilent ==
    [][(/\ last'.n # last.n
        /\ IsBroadcastStep(last')
        /\ \E i \in DOMAIN last'.sends : ~last'.sends[i].ok) =>
         LET S == last'.sid
             r == room[S]
             sends == last'.sends
             gone == {sends[i].to : i \in {j \in DOMAIN sends : ~sends[j].ok}}
         IN /\ Len(sends) = Cardinality(Registered(r) \ {S})
            /\ \A i \in DOMAIN sends : sends[i].ev = BroadcastMessage(last')
            /\ \A X \in Joined :
                 /\ \/ log'[X] = log[X]
                    \/ log'[X] = Append(log[X], [n |-> last'.n, ev |-> BroadcastMessage(last')])
                 /\ \A R \in gone \ {S} : LeavesOf(log'[X], R) = LeavesOf(log[X], R)]_vars

\* a cursor update whose broadcast evicted one recipient and reached
\* another
EvictionSilentWitness ==
    /\ last.op = "message"
    /\ IsCursorText(last.raw)
    /\ \E i \in DOMAIN last.sends : ~last.sends[i].ok
    /\ \E i \in DOMAIN last.sends : last.sends[i].ok

\* an entry of a connection's log that is an event about session s
About(e, s) == e.ev.type \in {"cursor", "leave"} /\ e.ev.sessionId = s

\* this step delivers to X its first event about s
FirstAbout(X, s) ==
    /\ \A i \in DOMAIN log[X] : ~About(log[X][i], s)
    /\ \E i \in DOMAIN log'[X] : About(log'[X][i], s)

\* a join makes one send, of the init payload to the joiner, and delivers
\* nothing to the sessions already there
JoinSendsOnlyInit ==
    last'.op = "join" =>
        /\ Len(last'.sends) = 1
        /\ last'.sends[1].to = last'.sid
        /\ last'.sends[1].ev.type = "init"
        /\ last'.sid \notin Joined
        /\ \A X \in Joined : log'[X] = log[X]

\* C14 as written: a join sends only the init payload, and a session that
\* was there before session s joined gets its first event about s only
\* when the first cursor update of s is handled.  A session that closes
\* without a cursor update is first heard of through its leave event.
JoinAloneSilentAsWritten ==
    [][last'.n # last.n =>
         /\ JoinSendsOnlyInit
         /\ \A s \in Joined : \A X \in Joined :
              (X < s /\ FirstAbout(X, s)) =>
                  /\ last'.op = "message"
                  /\ last'.sid = s
                  /\ reported[s] = {}]_vars

\* C14 amended: ... only when the first cursor update of s is handled or,
\* if s closes without having sent one, when its close is handled.
JoinAloneSilent ==
    [][last'.n # last.n =>
         /\ JoinSendsOnlyInit
         /\ \A s \in Joined : \A X \in Joined :
              (X < s /\ FirstAbout(X, s)) =>
                  /\ last'.op \in {"message", "close"}
                  /\ last'.sid = s
                  /\ reported[s] = {}]_vars

\* a session joined a room where another was registered, sent nothing and
\* closed: the other's first event about it is the leave event
JoinAloneSilentWitness ==
    /\ last.op = "close"
    /\ reported[last.sid] = {}
    /\ \E i \in DOMAIN last.sends :
         /\ last.sends[i].ok
         /\ last.sends[i].to < last.sid
         /\ Cardinality({j \in DOMAIN log[last.sends[i].to] : About(log[last.sends[i].to][j], last.sid)}) = 1

\* C20: when the close listener runs for a session that a failed send had
\* already evicted, every session registered in its room at that time is
\* sent exactly one leave event for it.
CloseAfterEviction ==
    [][(last'.n # last.n /\ last'.op = "close" /\ ~last'.reg) =>
         LET A == last'.sid
             r == room[A]
             sends == last'.sends
         IN /\ A \notin Registered(r)
            /\ Len(sends) = Cardinality(Registered(r))
            /\ \A b \in Registered(r) :
                 /\ Cardinality(SendsTo(sends, b)) = 1
                 /\ \A i \in SendsTo(sends, b) : sends[i].ev = LeaveEvent(A)]_vars

\* an evicted session's connection closed with two sessions registered
CloseAfterEvictionWitness ==
    /\ last.op = "close"
    /\ ~last.reg
    /\ Len(last.sends) = 2
    /\ \E i \in DOMAIN last.sends : last.sends[i].ok

\* ------------------------------------------------------ the page's claims
\* the sockets of the page that are connecting or open
LiveSockets(a) == {k \in DOMAIN a.socks : a.socks[k] \in {"connecting", "open"}}

\* the step is the onopen of a socket
IsOpenStep == \E k \in DOMAIN app.socks : app.socks[k] = "connecting" /\ app'.socks[k] = "open"

\* the step is the onclose of a socket
IsCloseStep == \E k \in LiveSockets(app) : app'.socks[k] = "closed"

\* C15: any two cursor messages the page puts on the wire are more than
\* throttleDelay (50 ms) apart, so no 50 ms window holds two of them; a
\* message goes out only while a pointer sample is handled and carries that
\* sample at that time, so a sample that was discarded is never sent later.
Throttled ==
    /\ [](\A i, j \in DOMAIN app.sent :
            i < j => app.sent[j].t - app.sent[i].t > throttleDelay)
    /\ [][app'.sent # app.sent =>
            /\ app'.handled.type = "sample"
            /\ app'.sent = Append(app.sent, [t |-> app.now,
                                             x |-> app'.handled.x,
                                             y |-> app'.handled.y])]_vars

\* a sample has just been discarded within 50 ms of the second message sent
ThrottledWitness ==
    /\ app.handled.type = "sample"
    /\ Len(app.sent) = 2
    /\ app.socks[Len(app.socks)] = "open"
    /\ app.now - app.sent[2].t \in 1..throttleDelay
    /\ <<app.handled.x, app.handled.y>> # <<app.sent[2].x, app.sent[2].y>>

\* C16: the delays scheduled since the last successful open start at the
\* base delay (1000 ms), each is strictly larger than the one before it (the
\* double of it, cut at the ceiling) and none exceeds the ceiling (10000 ms);
\* a successful open sets the retry counter to 0.
BackoffGrows ==
    /\ [](\A i \in DOMAIN app.delays :
            /\ app.delays[i] <= DelayCeiling
            /\ i = 1 => app.delays[i] = BaseDelay
            /\ i > 1 => /\ app.delays[i] > app.delays[i - 1]
                        /\ app.delays[i] = Min(2 * app.delays[i - 1], DelayCeiling))
    /\ [][IsOpenStep => app'.reconnectAttempts = 0]_vars

\* five failures in a row after an earlier connection: the last delay is
\* the ceiling
BackoffGrowsWitness ==
    /\ Len(app.delays) = maxReconnectAttempts
    /\ app.delays[Len(app.delays)] = DelayCeiling
    /\ Len(app.socks) > maxReconnectAttempts

\* C17: the retry counter never exceeds 5; when a socket closes after 5
\* attempts were scheduled with no open in between, the page schedules
\* nothing and shows the failed status; in the failed status no socket is
\* live and no timer is pending, and no later step creates a socket,
\* schedules a timer or changes the status.
GivesUp ==
    /\ [](app.reconnectAttempts <= maxReconnectAttempts)
    /\ [](app.status = StatusFailed =>
            /\ LiveSockets(app) = {}
            /\ app.timers = <<>>)
    /\ [][(Len(app.delays) = maxReconnectAttempts /\ IsCloseStep) =>
            /\ app'.status = StatusFailed
            /\ app'.timers = app.timers
            /\ app'.delays = app.delays]_vars
    /\ [][app.status = StatusFailed =>
            /\ app'.status = StatusFailed
            /\ app'.socks = app.socks
            /\ app'.timers = app.timers]_vars

\* the page has given up after the sixth socket closed
GivesUpWitness ==
    /\ app.status = StatusFailed
    /\ Len(app.delays) = maxReconnectAttempts
    /\ Len(app.socks) = maxReconnectAttempts + 1

\* C18: the live sockets of the page and its pending reconnect timers are
\* together at most one.
OneConnection == Cardinality(LiveSockets(app)) + Len(app.timers) <= 1

\* a reconnected socket is live after an error status was shown and an
\* earlier socket closed
OneConnectionWitness ==
    /\ Len(app.socks) >= 2
    /\ Cardinality(LiveSockets(app)) = 1
    /\ app.status = StatusError

\* C19: right after an init message is handled the page displays exactly
\* the cursors of that message's snapshot.
InitReconciles ==
    app.handled.type = "init" => DOMAIN app.cursors = DOMAIN app.handled.cursors

====
